---- MODULE Spec2Model ----
(***************************************************************************)
(* Model of scripts/validate.py: the four validation passes (JSON syntax,  *)
(* schema, completeness, uniqueness) and the driver main() that runs them  *)
(* in order over a repository tree.                                        *)
(*                                                                         *)
(* A text (a JSON string, an object key, a directory name) is a sequence   *)
(* of one-character strings, so that lower(), str(), int() and the two     *)
(* regular expressions are computed character by character.                *)
(* A JSON value is a record [t, n, s, items]: t is the Python type that    *)
(* json.load produces, n the numeric value (int, bool), s the text (str)   *)
(* or the repr (float, None, list), items the ordered key/value pairs of a *)
(* dict.                                                                   *)
(***************************************************************************)
EXTENDS Integers, Sequences, FiniteSets, TLC

VARIABLES repo, pc, has_errors, syntax_errors, schema_errors,
          completeness_errors, uniqueness_errors, called, raised, exit_code

vars == <<repo, pc, has_errors, syntax_errors, schema_errors,
          completeness_errors, uniqueness_errors, called, raised, exit_code>>

-----------------------------------------------------------------------------
(* Bounds of the model *)

\* number of translation files under natural-languages/ (template.json apart)
MaxTrFiles == 2
\* number of entries of the `translations` object in the uniqueness runs
MaxEntries == 3

-----------------------------------------------------------------------------
(* Texts *)

LowerLetters == {"a","b","c","d","e","f","g","h","i","j","k","l","m",
                 "n","o","p","q","r","s","t","u","v","w","x","y","z"}
DigitSeq == <<"0","1","2","3","4","5","6","7","8","9">>
DigitChars == {DigitSeq[i] : i \in 1..10}
WhitespaceChars == {" ", "\n", "\t", "\r"}

UpperSeq == <<"A","B","C","D","E","F","G","H","I","J","K","L","M",
              "N","O","P","Q","R","S","T","U","V","W","X","Y","Z">>
LowerSeq == <<"a","b","c","d","e","f","g","h","i","j","k","l","m",
              "n","o","p","q","r","s","t","u","v","w","x","y","z">>

\* str.lower() on one character
LowerChar(c) ==
    IF \E i \in 1..26 : UpperSeq[i] = c
    THEN LowerSeq[CHOOSE i \in 1..26 : UpperSeq[i] = c]
    ELSE c

\* str.lower()
PyLower(s) == [i \in 1..Len(s) |-> LowerChar(s[i])]

DigitVal(c) == (CHOOSE i \in 1..10 : DigitSeq[i] = c) - 1

RECURSIVE NatStr(_)
NatStr(n) == IF n < 10 THEN <<DigitSeq[n + 1]>>
             ELSE NatStr(n \div 10) \o <<DigitSeq[(n % 10) + 1]>>

\* str(n) of an int
IntStr(n) == IF n < 0 THEN <<"-">> \o NatStr(0 - n) ELSE NatStr(n)

RECURSIVE LStrip(_)
LStrip(s) == IF Len(s) > 0 /\ s[1] \in WhitespaceChars THEN LStrip(Tail(s)) ELSE s

RECURSIVE RStrip(_)
RStrip(s) == IF Len(s) > 0 /\ s[Len(s)] \in WhitespaceChars
             THEN RStrip(SubSeq(s, 1, Len(s) - 1)) ELSE s

RECURSIVE DigitsVal(_)
DigitsVal(s) == IF Len(s) = 0 THEN 0
                ELSE 10 * DigitsVal(SubSeq(s, 1, Len(s) - 1)) + DigitVal(s[Len(s)])

\* the digits of an int() literal: digits, single underscores between them
IntBodyOk(b) ==
    /\ Len(b) > 0
    /\ \A i \in 1..Len(b) : b[i] \in DigitChars \cup {"_"}
    /\ b[1] # "_" /\ b[Len(b)] # "_"
    /\ \A i \in 1..(Len(b) - 1) : ~(b[i] = "_" /\ b[i + 1] = "_")

\* int(s): [ok |-> FALSE] stands for ValueError
PyInt(s) ==
    LET t == RStrip(LStrip(s))
        signed == Len(t) > 0 /\ t[1] \in {"-", "+"}
        b == IF signed THEN Tail(t) ELSE t
        d == SelectSeq(b, LAMBDA c : c # "_")
    IN IF IntBodyOk(b)
       THEN [ok |-> TRUE, n |-> IF signed /\ t[1] = "-" THEN 0 - DigitsVal(d) ELSE DigitsVal(d)]
       ELSE [ok |-> FALSE, n |-> 0]

\* re.compile(r"^<class>+$").match(s): `$` matches at the end of the text
\* and also just before a newline that ends it
MatchClassPlus(class, s) ==
    LET body == IF Len(s) > 0 /\ s[Len(s)] = "\n" THEN SubSeq(s, 1, Len(s) - 1) ELSE s
        plain == Len(s) > 0 /\ \A i \in 1..Len(s) : s[i] \in class
        beforeNl == Len(body) > 0 /\ \A i \in 1..Len(body) : body[i] \in class
    IN plain \/ beforeNl

KEYWORD_PATTERN(s) == MatchClassPlus(LowerLetters, s)
ID_PATTERN(s) == MatchClassPlus(DigitChars, s)

SKIP_FILES == {"template.json"}

-----------------------------------------------------------------------------
(* JSON values as json.load returns them *)

NoItems == <<>>
JInt(n) == [t |-> "int", n |-> n, s |-> <<>>, items |-> NoItems]
JBool(b) == [t |-> "bool", n |-> IF b THEN 1 ELSE 0, s |-> <<>>, items |-> NoItems]
JFloat(repr) == [t |-> "float", n |-> 0, s |-> repr, items |-> NoItems]
JStr(s) == [t |-> "str", n |-> 0, s |-> s, items |-> NoItems]
JNull == [t |-> "NoneType", n |-> 0, s |-> <<"N","o","n","e">>, items |-> NoItems]
JList == [t |-> "list", n |-> 0, s |-> <<"[","]">>, items |-> NoItems]
JDict(items) == [t |-> "dict", n |-> 0, s |-> <<>>, items |-> items]
Item(k, v) == [k |-> k, v |-> v]

IsInt(v) == v.t \in {"int", "bool"}      \* isinstance(v, int): bool is a subclass of int
IsStr(v) == v.t = "str"                  \* isinstance(v, str)
IsDict(v) == v.t = "dict"                \* isinstance(v, dict)

\* str(v)
PyStr(v) == CASE v.t = "int" -> IntStr(v.n)
              [] v.t = "bool" -> IF v.n = 1 THEN <<"T","r","u","e">> ELSE <<"F","a","l","s","e">>
              [] OTHER -> v.s

\* dict operations
Keys(d) == {d.items[i].k : i \in 1..Len(d.items)}
Has(d, k) == k \in Keys(d)
At(d, k) == d.items[CHOOSE i \in 1..Len(d.items) : d.items[i].k = k].v
Get(d, k, default) == IF Has(d, k) THEN At(d, k) ELSE default
Values(d) == {d.items[i].v : i \in 1..Len(d.items)}

\* names of the root fields
kKeywords == <<"k","e","y","w","o","r","d","s">>
kVersion == <<"v","e","r","s","i","o","n">>
kLanguageCode == <<"l","a","n","g","u","a","g","e","C","o","d","e">>
kLanguageName == <<"l","a","n","g","u","a","g","e","N","a","m","e">>
kProgrammingLanguage == <<"p","r","o","g","r","a","m","m","i","n","g","L","a","n","g","u","a","g","e">>
kTranslations == <<"t","r","a","n","s","l","a","t","i","o","n","s">>

required_fields == <<kVersion, kLanguageCode, kLanguageName, kProgrammingLanguage, kTranslations>>
string_fields == <<kVersion, kLanguageCode, kLanguageName, kProgrammingLanguage>>

Range(q) == {q[i] : i \in 1..Len(q)}

RECURSIVE Flatten(_)
Flatten(qs) == IF Len(qs) = 0 THEN <<>> ELSE Head(qs) \o Flatten(Tail(qs))

-----------------------------------------------------------------------------
(* 2. Schema *)

SchemaErr(rel, kind, subject, props) ==
    [rel |-> rel, kind |-> kind, subject |-> subject, props |-> props]

KeywordEntryErrors(rel, e) ==
    (IF ~KEYWORD_PATTERN(e.k) THEN <<SchemaErr(rel, "key-pattern", e.k, {})>> ELSE <<>>)
    \o (IF ~IsInt(e.v) \/ e.v.n < 0 THEN <<SchemaErr(rel, "value-int", e.k, {})>> ELSE <<>>)

validate_keyword_table_schema(rel, data) ==
    IF ~IsDict(data) THEN <<SchemaErr(rel, "root-object", <<>>, {})>>
    ELSE
      LET extra_root == Keys(data) \ {kKeywords}
          e1 == IF extra_root # {} THEN <<SchemaErr(rel, "extra-root", <<>>, extra_root)>> ELSE <<>>
      IN IF ~Has(data, kKeywords) THEN e1 \o <<SchemaErr(rel, "missing-field", kKeywords, {})>>
         ELSE LET keywords == At(data, kKeywords)
              IN IF ~IsDict(keywords) THEN e1 \o <<SchemaErr(rel, "keywords-object", <<>>, {})>>
                 ELSE e1 \o Flatten([i \in 1..Len(keywords.items) |->
                                        KeywordEntryErrors(rel, keywords.items[i])])

TranslationEntryErrors(rel, e) ==
    (IF ~ID_PATTERN(e.k) THEN <<SchemaErr(rel, "id-pattern", e.k, {})>> ELSE <<>>)
    \o (IF ~IsStr(e.v) THEN <<SchemaErr(rel, "value-string", e.k, {})>>
        ELSE IF Len(e.v.s) < 1 THEN <<SchemaErr(rel, "value-empty", e.k, {})>>
        ELSE <<>>)

validate_translation_schema(rel, data) ==
    IF ~IsDict(data) THEN <<SchemaErr(rel, "root-object", <<>>, {})>>
    ELSE
      LET e1 == Flatten([i \in 1..Len(required_fields) |->
                    IF ~Has(data, required_fields[i])
                    THEN <<SchemaErr(rel, "missing-field", required_fields[i], {})>> ELSE <<>>])
          extra_root == Keys(data) \ Range(required_fields)
          e2 == IF extra_root # {} THEN <<SchemaErr(rel, "extra-root", <<>>, extra_root)>> ELSE <<>>
          e3 == Flatten([i \in 1..Len(string_fields) |->
                    IF Has(data, string_fields[i]) /\ ~IsStr(At(data, string_fields[i]))
                    THEN <<SchemaErr(rel, "field-string", string_fields[i], {})>> ELSE <<>>])
      IN IF ~Has(data, kTranslations) THEN e1 \o e2 \o e3
         ELSE LET translations == At(data, kTranslations)
              IN IF ~IsDict(translations)
                 THEN e1 \o e2 \o e3 \o <<SchemaErr(rel, "translations-object", <<>>, {})>>
                 ELSE e1 \o e2 \o e3 \o Flatten([i \in 1..Len(translations.items) |->
                                        TranslationEntryErrors(rel, translations.items[i])])

-----------------------------------------------------------------------------
(* Files of the repository tree.  A file is                                *)
(*   [path, top, parent, name, ok, data]                                   *)
(* path: its path relative to ROOT; top: the first directory of the path;  *)
(* parent: the name of its directory (a text); name: its file name;        *)
(* ok: json.load accepts its content; data: the value json.load returns.   *)

File(path, top, parent, name, ok, data) ==
    [path |-> path, top |-> top, parent |-> parent, name |-> name, ok |-> ok, data |-> data]

find_keywords_base_files(tree) ==
    SelectSeq(tree, LAMBDA f : f.top = "programming-languages" /\ f.name = "keywords-base.json")

\* find_translation_files without the SKIP_FILES test
find_translation_files_no_skip(tree) ==
    SelectSeq(tree, LAMBDA f : f.top = "natural-languages")

find_translation_files(tree) ==
    SelectSeq(tree, LAMBDA f : f.top = "natural-languages" /\ f.name \notin SKIP_FILES)

all_json_files(tree) == tree

-----------------------------------------------------------------------------
(* 1. JSON syntax *)

validate_json_syntax(files) ==
    Flatten([i \in 1..Len(files) |->
                IF ~files[i].ok THEN <<[rel |-> files[i].path, kind |-> "syntax"]>> ELSE <<>>])

validate_schemas(tree) ==
    LET kb == find_keywords_base_files(tree)
        tr == find_translation_files(tree)
    IN Flatten([i \in 1..Len(kb) |-> validate_keyword_table_schema(kb[i].path, kb[i].data)])
       \o Flatten([i \in 1..Len(tr) |-> validate_translation_schema(tr[i].path, tr[i].data)])

-----------------------------------------------------------------------------
(* 3. Completeness.  A check that may raise yields an outcome              *)
(* [raised, errors]; raised = TRUE is an exception that leaves the         *)
(* function (its error list is lost).                                      *)

Returned(errors) == [raised |-> FALSE, errors |-> errors]
Raised == [raised |-> TRUE, errors |-> <<>>]

EmptyMap == [x \in {} |-> {}]
MapPut(m, k, v) == [x \in (DOMAIN m) \cup {k} |-> IF x = k THEN v ELSE m[x]]

\* lines 160-166: the dict prog_langs, or an exception
RECURSIVE BuildProgLangs(_, _)
BuildProgLangs(kb, acc) ==
    IF Len(kb) = 0 THEN [raised |-> FALSE, map |-> acc]
    ELSE LET data == Head(kb).data
         IN IF ~IsDict(data) THEN [raised |-> TRUE, map |-> acc]          \* data.get
            ELSE LET keywords == Get(data, kKeywords, JDict(<<>>))
                 IN IF ~IsDict(keywords) THEN [raised |-> TRUE, map |-> acc]   \* .values()
                    ELSE BuildProgLangs(Tail(kb),
                            MapPut(acc, Head(kb).parent, {PyStr(v) : v \in Values(keywords)}))

Perms(S) == {q \in [1..Cardinality(S) -> S] : \A i, j \in 1..Cardinality(S) : i # j => q[i] # q[j]}

\* sorted(S, key=int) of a set: the orders a stable sort can give, the
\* iteration order of the set being arbitrary
SortedByInt(S) ==
    {q \in Perms(S) : \A i \in 1..(Len(q) - 1) : PyInt(q[i]).n <= PyInt(q[i + 1]).n}

IntRaises(S) == \E x \in S : ~PyInt(x).ok

CompletenessErr(rel, kind, lang, ids) == [rel |-> rel, kind |-> kind, lang |-> lang, ids |-> ids]

\* lines 169-191 for one translation file: the set of possible outcomes
CompletenessOfFile(f, prog_langs) ==
    IF ~IsDict(f.data) THEN {Raised}                                      \* data.get
    ELSE LET pl == Get(f.data, kProgrammingLanguage, JStr(<<>>))
         IN IF ~IsStr(pl) THEN {Raised}                                   \* .lower()
            ELSE LET prog_lang == PyLower(pl.s)
                 IN IF prog_lang \notin DOMAIN prog_langs
                    THEN {Returned(<<CompletenessErr(f.path, "no-keywords-base", prog_lang, <<>>)>>)}
                    ELSE LET base_ids == prog_langs[prog_lang]
                             translations == Get(f.data, kTranslations, JDict(<<>>))
                         IN IF ~IsDict(translations) THEN {Raised}        \* .keys()
                            ELSE LET translation_ids == Keys(translations)
                                     missing == base_ids \ translation_ids
                                     extra == translation_ids \ base_ids
                                 IN IF IntRaises(missing) \/ IntRaises(extra) THEN {Raised}   \* int()
                                    ELSE {Returned(
                                            (IF missing # {} THEN <<CompletenessErr(f.path, "missing", prog_lang, sm)>> ELSE <<>>)
                                            \o (IF extra # {} THEN <<CompletenessErr(f.path, "extra", prog_lang, se)>> ELSE <<>>))
                                          : sm \in SortedByInt(missing), se \in SortedByInt(extra)}

RECURSIVE CompletenessOfFiles(_, _)
CompletenessOfFiles(tr, prog_langs) ==
    IF Len(tr) = 0 THEN {Returned(<<>>)}
    ELSE UNION {IF o.raised THEN {Raised}
                ELSE {IF r.raised THEN Raised ELSE Returned(o.errors \o r.errors)
                        : r \in CompletenessOfFiles(Tail(tr), prog_langs)}
                : o \in CompletenessOfFile(Head(tr), prog_langs)}

validate_completeness(tree) ==
    LET pl == BuildProgLangs(find_keywords_base_files(tree), EmptyMap)
    IN IF pl.raised THEN {Raised}
       ELSE CompletenessOfFiles(find_translation_files(tree), pl.map)

-----------------------------------------------------------------------------
(* 4. Uniqueness *)

UniquenessErr(rel, word, first, current) ==
    [rel |-> rel, word |-> word, first |-> first, current |-> current]

\* the loop with `seen` overwritten at each duplicate
RECURSIVE UniquenessLoopLastSeen(_, _, _, _)
UniquenessLoopLastSeen(rel, items, seen, errors) ==
    IF Len(items) = 0 THEN errors
    ELSE LET id_key == Head(items).k
             translated_word == Head(items).v
         IN IF ~IsStr(translated_word) \/ Len(translated_word.s) = 0
            THEN UniquenessLoopLastSeen(rel, Tail(items), seen, errors)
            ELSE LET lower_word == PyLower(translated_word.s)
                 IN IF lower_word \in DOMAIN seen
                    THEN UniquenessLoopLastSeen(rel, Tail(items), MapPut(seen, lower_word, id_key),
                            Append(errors, UniquenessErr(rel, translated_word.s, seen[lower_word], id_key)))
                    ELSE UniquenessLoopLastSeen(rel, Tail(items), MapPut(seen, lower_word, id_key), errors)

\* lines 211-222: the loop over translations.items() with the dict `seen`
RECURSIVE UniquenessLoop(_, _, _, _)
UniquenessLoop(rel, items, seen, errors) ==
    IF Len(items) = 0 THEN errors
    ELSE LET id_key == Head(items).k
             translated_word == Head(items).v
         IN IF ~IsStr(translated_word) \/ Len(translated_word.s) = 0
            THEN UniquenessLoop(rel, Tail(items), seen, errors)
            ELSE LET lower_word == PyLower(translated_word.s)
                 IN IF lower_word \in DOMAIN seen
                    THEN UniquenessLoop(rel, Tail(items), seen,
                            Append(errors, UniquenessErr(rel, translated_word.s, seen[lower_word], id_key)))
                    ELSE UniquenessLoop(rel, Tail(items), MapPut(seen, lower_word, id_key), errors)

UniquenessOfFile(f) ==
    IF ~IsDict(f.data) THEN Raised                                        \* data.get
    ELSE LET translations == Get(f.data, kTranslations, JDict(<<>>))
         IN IF ~IsDict(translations) THEN Raised                          \* .items()
            ELSE Returned(UniquenessLoop(f.path, translations.items, EmptyMap, <<>>))

RECURSIVE UniquenessOfFiles(_)
UniquenessOfFiles(tr) ==
    IF Len(tr) = 0 THEN Returned(<<>>)
    ELSE LET o == UniquenessOfFile(Head(tr))
             r == UniquenessOfFiles(Tail(tr))
         IN IF o.raised \/ r.raised THEN Raised ELSE Returned(o.errors \o r.errors)

validate_uniqueness(tree) == UniquenessOfFiles(find_translation_files(tree))

-----------------------------------------------------------------------------
(* main() *)

NoExit == 0 - 1

\* an exception no handler catches ends the process: the interpreter prints
\* the traceback and the exit status is 1
Uncaught(fn) ==
    /\ raised' = fn
    /\ exit_code' = 1
    /\ pc' = "exit"

\* stage 1 without the abort of lines 253-255
SyntaxStageNoAbort ==
    /\ pc = "syntax"
    /\ called' = called \cup {"validate_json_syntax"}
    /\ syntax_errors' = validate_json_syntax(all_json_files(repo))
    /\ has_errors' = (Len(syntax_errors') > 0)
    /\ pc' = "schema"
    /\ UNCHANGED <<repo, schema_errors, completeness_errors, uniqueness_errors, raised, exit_code>>

\* lines 237-255
SyntaxStage ==
    /\ pc = "syntax"
    /\ called' = called \cup {"validate_json_syntax"}
    /\ syntax_errors' = validate_json_syntax(all_json_files(repo))
    /\ IF Len(syntax_errors') > 0
       THEN /\ has_errors' = TRUE
            /\ exit_code' = 1
            /\ pc' = "exit"
       ELSE /\ pc' = "schema"
            /\ UNCHANGED <<has_errors, exit_code>>
    /\ UNCHANGED <<repo, schema_errors, completeness_errors, uniqueness_errors, raised>>

\* stage 2 without `has_errors = True`
SchemaStageNoFlag ==
    /\ pc = "schema"
    /\ called' = called \cup {"validate_schemas"}
    /\ schema_errors' = validate_schemas(repo)
    /\ pc' = "completeness"
    /\ UNCHANGED <<repo, has_errors, syntax_errors, completeness_errors, uniqueness_errors, raised, exit_code>>

\* lines 257-267
SchemaStage ==
    /\ pc = "schema"
    /\ called' = called \cup {"validate_schemas"}
    /\ schema_errors' = validate_schemas(repo)
    /\ has_errors' = (has_errors \/ Len(schema_errors') > 0)
    /\ pc' = "completeness"
    /\ UNCHANGED <<repo, syntax_errors, completeness_errors, uniqueness_errors, raised, exit_code>>

\* lines 269-279
CompletenessStage ==
    /\ pc = "completeness"
    /\ called' = called \cup {"validate_completeness"}
    /\ \E o \in validate_completeness(repo) :
          IF o.raised
          THEN /\ Uncaught("validate_completeness")
               /\ UNCHANGED <<completeness_errors, has_errors>>
          ELSE /\ completeness_errors' = o.errors
               /\ has_errors' = (has_errors \/ Len(o.errors) > 0)
               /\ pc' = "uniqueness"
               /\ UNCHANGED <<raised, exit_code>>
    /\ UNCHANGED <<repo, syntax_errors, schema_errors, uniqueness_errors>>

\* lines 281-291
UniquenessStage ==
    /\ pc = "uniqueness"
    /\ called' = called \cup {"validate_uniqueness"}
    /\ LET o == validate_uniqueness(repo)
       IN IF o.raised
          THEN /\ Uncaught("validate_uniqueness")
               /\ UNCHANGED <<uniqueness_errors, has_errors>>
          ELSE /\ uniqueness_errors' = o.errors
               /\ has_errors' = (has_errors \/ Len(o.errors) > 0)
               /\ pc' = "result"
               /\ UNCHANGED <<raised, exit_code>>
    /\ UNCHANGED <<repo, syntax_errors, schema_errors, completeness_errors>>

\* lines 293-303
Result ==
    /\ pc = "result"
    /\ exit_code' = IF has_errors THEN 1 ELSE 0
    /\ pc' = "exit"
    /\ UNCHANGED <<repo, has_errors, syntax_errors, schema_errors,
                   completeness_errors, uniqueness_errors, called, raised>>

Next == SyntaxStage \/ SchemaStage \/ CompletenessStage \/ UniquenessStage \/ Result

\* the state when main() is entered, for a repository tree
Start(tree) ==
    /\ repo = tree
    /\ pc = "syntax"
    /\ has_errors = FALSE
    /\ syntax_errors = <<>>
    /\ schema_errors = <<>>
    /\ completeness_errors = <<>>
    /\ uniqueness_errors = <<>>
    /\ called = {}
    /\ raised = ""
    /\ exit_code = NoExit

-----------------------------------------------------------------------------
(* Repository trees the runs start from *)

tA == <<"a">>
tUpperA == <<"A">>
tB == <<"b">>
tANewline == <<"a", "\n">>
t1 == <<"1">>
t2 == <<"2">>
t3 == <<"3">>
t10 == <<"1", "0">>
t1Newline == <<"1", "\n">>
tX == <<"x">>
tPy == <<"p", "y">>
tUpperPy == <<"P", "y">>
tC == <<"c">>
tPt == <<"p", "t">>

KeywordsDoc(items) == JDict(<<Item(kKeywords, JDict(items))>>)

\* contents of keywords-base.json
KbData ==
    { KeywordsDoc(<<Item(tA, JInt(1)), Item(tB, JInt(2))>>),
      KeywordsDoc(<<Item(tA, JInt(1)), Item(tB, JInt(1))>>),
      KeywordsDoc(<<Item(tA, JInt(2)), Item(tB, JInt(10))>>),
      KeywordsDoc(<<Item(tA, JBool(TRUE))>>),
      KeywordsDoc(<<Item(tA, JFloat(<<"1", ".", "5">>))>>),
      KeywordsDoc(<<Item(tANewline, JInt(1)), Item(tUpperA, JInt(0 - 1))>>),
      KeywordsDoc(<<Item(tA, JStr(t1)), Item(<<>>, JInt(2))>>),
      JDict(<<Item(kKeywords, JList)>>),
      JDict(<<Item(kVersion, JStr(t1))>>),
      JDict(<<>>),
      JList }

KbPath(dir) == IF dir = tPy THEN "programming-languages/py/keywords-base.json"
               ELSE IF dir = tUpperPy THEN "programming-languages/Py/keywords-base.json"
               ELSE "programming-languages/c/keywords-base.json"

KbFile(dir, ok, data) == File(KbPath(dir), "programming-languages", dir, "keywords-base.json", ok, data)

KbFileSeqs ==
    { <<KbFile(dir, TRUE, d)>> : dir \in {tPy, tUpperPy}, d \in KbData }
    \cup { <<>>,
           <<KbFile(tPy, FALSE, JNull)>>,
           <<KbFile(tPy, TRUE, KeywordsDoc(<<Item(tA, JInt(1)), Item(tB, JInt(2))>>)),
             KbFile(tUpperPy, TRUE, KeywordsDoc(<<Item(tA, JInt(1))>>))>> }

TranslationDoc(head, pl, translations) ==
    JDict(head \o pl \o translations)

FullHead == <<Item(kVersion, JStr(t1)), Item(kLanguageCode, JStr(tPt)), Item(kLanguageName, JStr(tPt))>>
PL(v) == <<Item(kProgrammingLanguage, v)>>
TR(v) == <<Item(kTranslations, v)>>

\* contents of the translation files
TrData ==
    { TranslationDoc(FullHead, PL(JStr(tPy)), TR(JDict(<<Item(t1, JStr(tA)), Item(t2, JStr(tB))>>))),
      TranslationDoc(FullHead, PL(JStr(tUpperPy)), TR(JDict(<<Item(t10, JStr(tA)), Item(t2, JStr(tB)), Item(t1, JStr(tC))>>))),
      TranslationDoc(FullHead, PL(JStr(tPy)), TR(JDict(<<Item(t1, JStr(tA)), Item(t2, JStr(tUpperA))>>))),
      TranslationDoc(FullHead, PL(JStr(tPy)), TR(JDict(<<Item(t1, JStr(tA)), Item(tX, JStr(tB))>>))),
      TranslationDoc(FullHead, PL(JStr(tPy)), TR(JDict(<<Item(t1Newline, JStr(tA)), Item(t2, JInt(5)), Item(t1, JStr(<<>>))>>))),
      TranslationDoc(FullHead, PL(JStr(tPy)), TR(JDict(<<>>))),
      TranslationDoc(FullHead, PL(JStr(tPy)), TR(JList)),
      TranslationDoc(FullHead, PL(JStr(tC)), TR(JDict(<<Item(tX, JStr(tA)), Item(t1, JStr(tA)), Item(t2, JStr(tUpperA))>>))),
      TranslationDoc(FullHead, PL(JStr(tC)), TR(JList)),
      TranslationDoc(FullHead, PL(JInt(5)), TR(JDict(<<Item(t1, JStr(tA))>>))),
      TranslationDoc(<<Item(kVersion, JInt(1)), Item(tX, JNull), Item(tA, JNull)>>, <<>>, <<>>),
      JList }

TrPaths == <<"natural-languages/pt/pt.json", "natural-languages/es/es.json",
             "natural-languages/fr/fr.json", "natural-languages/de/de.json">>
TrNames == <<"pt.json", "es.json", "fr.json", "de.json">>

TrFile(i, ok, data) == File(TrPaths[i], "natural-languages", tPt, TrNames[i], ok, data)

TrFileChoices == {[ok |-> TRUE, data |-> d] : d \in TrData} \cup {[ok |-> FALSE, data |-> JNull]}

\* contents of the translation files after the first one
MoreTrFileChoices ==
    { [ok |-> TRUE, data |-> TranslationDoc(FullHead, PL(JStr(tPy)), TR(JDict(<<Item(t1, JStr(tA)), Item(t2, JStr(tUpperA))>>)))],
      [ok |-> TRUE, data |-> TranslationDoc(FullHead, PL(JStr(tPy)), TR(JDict(<<Item(t1, JStr(tA)), Item(tX, JStr(tB))>>)))],
      [ok |-> TRUE, data |-> TranslationDoc(FullHead, PL(JStr(tC)), TR(JList))],
      [ok |-> TRUE, data |-> JList],
      [ok |-> FALSE, data |-> JNull] }

TrFileSeqs(first, more, max) ==
    UNION {{[i \in 1..n |-> TrFile(i, c[i].ok, c[i].data)]
              : c \in {x \in [1..n -> first \cup more] : \A i \in 2..n : x[i] \in more}} : n \in 0..max}

TemplateFile(ok, data) == File("natural-languages/template.json", "natural-languages", <<>>, "template.json", ok, data)

TemplateSeqs ==
    { <<>>,
      <<TemplateFile(FALSE, JNull)>>,
      <<TemplateFile(TRUE, TranslationDoc(<<>>, PL(JInt(0)), TR(JDict(<<Item(tX, JStr(tA)), Item(t1, JStr(tA))>>))))>>,
      <<TemplateFile(TRUE, JList)>> }

OtherFile(ok) == File("schemas/translation.json", "schemas", <<>>, "translation.json", ok, JDict(<<>>))

OtherSeqs == { <<>>, <<OtherFile(FALSE)>> }

Repos == { kb \o tr \o tp \o ot : kb \in KbFileSeqs, tr \in TrFileSeqs(TrFileChoices, MoreTrFileChoices, MaxTrFiles),
                                   tp \in TemplateSeqs, ot \in OtherSeqs }

Init == \E tree \in Repos : Start(tree)

Spec == Init /\ [][Next]_vars

\* runs for the uniqueness pass: one keyword base, a first translation file
\* whose `translations` ranges over the objects of at most MaxEntries entries,
\* and possibly a second translation file
UqKeys == {t1, t2, t3, t10}
UqValues == {JStr(tA), JStr(tUpperA), JStr(tB), JStr(<<>>), JInt(5)}
UqItems == {Item(k, v) : k \in UqKeys, v \in UqValues}

UqItemSeqs ==
    UNION {{q \in [1..n -> UqItems] : \A i, j \in 1..n : i # j => q[i].k # q[j].k} : n \in 0..MaxEntries}

UqSecond ==
    { <<>>,
      <<[ok |-> TRUE, data |-> TranslationDoc(FullHead, PL(JStr(tC)), TR(JDict(<<Item(t1, JStr(tUpperA)), Item(t2, JStr(tA))>>)))]>>,
      <<[ok |-> TRUE, data |-> TranslationDoc(FullHead, PL(JStr(tC)), TR(JList))]>> }

UqRepos ==
    { <<KbFile(tPy, TRUE, KeywordsDoc(<<Item(tA, JInt(1)), Item(tB, JInt(2))>>))>>
      \o <<TrFile(1, TRUE, TranslationDoc(FullHead, PL(JStr(tPy)), TR(JDict(q))))>>
      \o [i \in 1..Len(c) |-> TrFile(i + 1, c[i].ok, c[i].data)]
      : q \in UqItemSeqs, c \in UqSecond }

InitUq == \E tree \in UqRepos : Start(tree)

SpecUq == InitUq /\ [][Next]_vars

-----------------------------------------------------------------------------
(* Properties *)

AllChecks == {"validate_json_syntax", "validate_schemas", "validate_completeness", "validate_uniqueness"}

\* C1: when some .json file of the tree does not parse, the run ends right
\* after stage 1 with exit code 1 and none of validate_schemas,
\* validate_completeness, validate_uniqueness has been called.
SyntaxGate ==
    (pc # "syntax" /\ \E i \in 1..Len(repo) : ~repo[i].ok)
    => /\ pc = "exit"
       /\ exit_code = 1
       /\ Len(syntax_errors) > 0
       /\ called = {"validate_json_syntax"}
       /\ schema_errors = <<>> /\ completeness_errors = <<>> /\ uniqueness_errors = <<>>

SyntaxGateWitness ==
    /\ pc = "exit"
    /\ \E i \in 1..Len(repo) : ~repo[i].ok /\ repo[i].top = "schemas"
    /\ \A i \in 1..Len(repo) : repo[i].top # "schemas" => repo[i].ok
    /\ Len(find_translation_files(repo)) > 0

\* C2: a run ends with exit code 0 exactly when the four checks all returned
\* an empty error list, with exit code 1 when one of them returned an error,
\* and with no other exit code.
ExitCode ==
    /\ pc # "exit" => exit_code = NoExit
    /\ pc = "exit" =>
         /\ exit_code \in {0, 1}
         /\ exit_code = 0 <=> /\ called = AllChecks
                              /\ raised = ""
                              /\ syntax_errors = <<>> /\ schema_errors = <<>>
                              /\ completeness_errors = <<>> /\ uniqueness_errors = <<>>
         /\ (Len(syntax_errors) + Len(schema_errors) + Len(completeness_errors)
               + Len(uniqueness_errors) > 0) => exit_code = 1

ExitCodeWitness ==
    /\ pc = "exit"
    /\ exit_code = 1
    /\ raised = ""
    /\ syntax_errors = <<>> /\ schema_errors = <<>> /\ completeness_errors = <<>>
    /\ Len(uniqueness_errors) > 0

\* C3: once stage 1 has passed, the schema, completeness and uniqueness
\* checks each run to completion, whatever the documents contain.
NoFailFast ==
    (pc = "exit" /\ "validate_json_syntax" \in called /\ syntax_errors = <<>>)
    => (called = AllChecks /\ raised = "")

\* helpers of the properties below
Count(list, Test(_)) == Len(SelectSeq(list, Test))
FullMatch(class, s) == Len(s) > 0 /\ \A i \in 1..Len(s) : s[i] \in class
Over(fn) == fn \in called
Done(fn) == fn \in called /\ raised # fn
KbFilesOf(tree) == {tree[i] : i \in {j \in 1..Len(tree) :
                        tree[j].top = "programming-languages" /\ tree[j].name = "keywords-base.json"}}
TrFilesOf(tree) == {tree[i] : i \in {j \in 1..Len(tree) :
                        tree[j].top = "natural-languages" /\ tree[j].name # "template.json"}}
ObjectOrAbsent(data, k) == IsDict(data) /\ (Has(data, k) => IsDict(At(data, k)))
ItemsOf(data, k) == IF IsDict(data) /\ Has(data, k) /\ IsDict(At(data, k)) THEN At(data, k).items ELSE <<>>
NamesLanguage(f) == IsDict(f.data) /\ Has(f.data, kProgrammingLanguage)
                    /\ IsStr(At(f.data, kProgrammingLanguage))
LanguageOf(f) == PyLower(At(f.data, kProgrammingLanguage).s)
Ascending(ids) == \A i \in 1..(Len(ids) - 1) : PyInt(ids[i]).n <= PyInt(ids[i + 1]).n
Lists(ids, S) == Range(ids) = S /\ Len(ids) = Cardinality(S)
\* no file other than f makes validate_completeness raise
OthersDoNotRaise(f) ==
    LET pl == BuildProgLangs(find_keywords_base_files(repo), EmptyMap)
    IN /\ ~pl.raised
       /\ \A g \in TrFilesOf(repo) \ {f} : Raised \notin CompletenessOfFile(g, pl.map)

\* C4: for a translation file whose programmingLanguage resolves to a
\* keyword base, validate_completeness reports nothing when the keys of
\* `translations` are the base IDs, and otherwise one 'missing' error listing
\* base IDs minus keys and one 'extra' error listing keys minus base IDs,
\* each complete and in ascending order of integer value.
CompletenessExact ==
    \A f \in TrFilesOf(repo) : \A b \in KbFilesOf(repo) :
       ( /\ Over("validate_completeness")
         /\ Cardinality(KbFilesOf(repo)) = 1
         /\ NamesLanguage(f) /\ LanguageOf(f) = b.parent
         /\ ObjectOrAbsent(b.data, kKeywords) /\ ObjectOrAbsent(f.data, kTranslations)
         /\ OthersDoNotRaise(f) )
       => LET base_ids == {PyStr(e.v) : e \in Range(ItemsOf(b.data, kKeywords))}
              translation_ids == {e.k : e \in Range(ItemsOf(f.data, kTranslations))}
              mine == SelectSeq(completeness_errors, LAMBDA e : e.rel = f.path)
          IN /\ raised = ""
             /\ (mine = <<>>) <=> (translation_ids = base_ids)
             /\ \A i \in 1..Len(mine) : mine[i].kind \in {"missing", "extra"}
             /\ Count(mine, LAMBDA e : e.kind = "missing") = IF base_ids \ translation_ids = {} THEN 0 ELSE 1
             /\ Count(mine, LAMBDA e : e.kind = "extra") = IF translation_ids \ base_ids = {} THEN 0 ELSE 1
             /\ \A i \in 1..Len(mine) :
                   /\ mine[i].kind = "missing" => Lists(mine[i].ids, base_ids \ translation_ids)
                   /\ mine[i].kind = "extra" => Lists(mine[i].ids, translation_ids \ base_ids)
                   /\ Ascending(mine[i].ids)

\* C5: a translation file whose programmingLanguage equals the name of a
\* keyword-base directory, letter case ignored on both sides, gets no
\* 'no corresponding keyword-base' error; a file that gets this error gets
\* no missing/extra error.
CaseInsensitiveResolution ==
    Done("validate_completeness") =>
      \A f \in TrFilesOf(repo) :
         NamesLanguage(f) =>
            LET mine == SelectSeq(completeness_errors, LAMBDA e : e.rel = f.path)
                unresolved == Count(mine, LAMBDA e : e.kind = "no-keywords-base")
            IN /\ (\E b \in KbFilesOf(repo) : PyLower(b.parent) = LanguageOf(f)) <=> unresolved = 0
               /\ unresolved # 0 => mine = <<CompletenessErr(f.path, "no-keywords-base", LanguageOf(f), <<>>)>>

\* C7: for a keyword base whose root is an object with an object `keywords`,
\* the schema check reports one error for each key that is not one or more
\* lowercase ASCII letters and nothing else, one error for each value that is
\* not an integer >= 0 (a boolean is not an integer), and no other entry error.
KeywordEntryChecks ==
    Over("validate_schemas") =>
      \A f \in KbFilesOf(repo) :
         (IsDict(f.data) /\ Has(f.data, kKeywords) /\ IsDict(At(f.data, kKeywords))) =>
            \A e \in Range(ItemsOf(f.data, kKeywords)) :
               /\ Count(schema_errors, LAMBDA x : x.rel = f.path /\ x.kind = "key-pattern" /\ x.subject = e.k)
                     = IF FullMatch(LowerLetters, e.k) THEN 0 ELSE 1
               /\ Count(schema_errors, LAMBDA x : x.rel = f.path /\ x.kind = "value-int" /\ x.subject = e.k)
                     = IF e.v.t = "int" /\ e.v.n >= 0 THEN 0 ELSE 1

\* C8: for a translation file whose root is an object, the schema check
\* reports one error per absent required field, one combined error when a
\* field outside the five is present, one error per present string field
\* that is not a string; entries are checked exactly when `translations` is
\* an object, and each entry gives one error when its key is not one or more
\* digits and nothing else, plus 'must be a string' or 'is empty' or nothing.
TranslationSchemaAccumulation ==
    Over("validate_schemas") =>
      \A f \in TrFilesOf(repo) :
         IsDict(f.data) =>
            LET mine == SelectSeq(schema_errors, LAMBDA x : x.rel = f.path)
                entries == Range(ItemsOf(f.data, kTranslations))
            IN /\ \A k \in Range(required_fields) :
                     Count(mine, LAMBDA x : x.kind = "missing-field" /\ x.subject = k)
                        = IF Has(f.data, k) THEN 0 ELSE 1
               /\ Count(mine, LAMBDA x : x.kind = "extra-root")
                     = IF Keys(f.data) \subseteq Range(required_fields) THEN 0 ELSE 1
               /\ \A k \in Range(string_fields) :
                     Count(mine, LAMBDA x : x.kind = "field-string" /\ x.subject = k)
                        = IF Has(f.data, k) /\ ~IsStr(At(f.data, k)) THEN 1 ELSE 0
               /\ Count(mine, LAMBDA x : x.kind \in {"id-pattern", "value-string", "value-empty"}
                                          /\ x.subject \notin {e.k : e \in entries}) = 0
               /\ \A e \in entries :
                     /\ Count(mine, LAMBDA x : x.kind = "id-pattern" /\ x.subject = e.k)
                           = IF FullMatch(DigitChars, e.k) THEN 0 ELSE 1
                     /\ Count(mine, LAMBDA x : x.kind = "value-string" /\ x.subject = e.k)
                           = IF IsStr(e.v) THEN 0 ELSE 1
                     /\ Count(mine, LAMBDA x : x.kind = "value-empty" /\ x.subject = e.k)
                           = IF IsStr(e.v) /\ Len(e.v.s) = 0 THEN 1 ELSE 0

\* C10: a keyword base whose root is an object without `keywords` is a known
\* language with no ID: a translation file naming it gets no 'no
\* corresponding keyword-base' error, no 'missing' error, and one 'extra'
\* error listing all its translation IDs when it has some.
EmptyBaseStillKnown ==
    \A f \in TrFilesOf(repo) : \A b \in KbFilesOf(repo) :
       ( /\ Over("validate_completeness")
         /\ Cardinality(KbFilesOf(repo)) = 1
         /\ IsDict(b.data) /\ ~Has(b.data, kKeywords)
         /\ NamesLanguage(f) /\ LanguageOf(f) = b.parent
         /\ ObjectOrAbsent(f.data, kTranslations)
         /\ OthersDoNotRaise(f) )
       => LET translation_ids == {e.k : e \in Range(ItemsOf(f.data, kTranslations))}
              mine == SelectSeq(completeness_errors, LAMBDA e : e.rel = f.path)
          IN /\ raised = ""
             /\ translation_ids = {} => mine = <<>>
             /\ translation_ids # {} =>
                   /\ Len(mine) = 1
                   /\ mine[1].kind = "extra"
                   /\ Lists(mine[1].ids, translation_ids)

\* the tree without natural-languages/**/template.json
WithoutTemplate(tree) ==
    SelectSeq(tree, LAMBDA f : ~(f.top = "natural-languages" /\ f.name = "template.json"))
TemplatesOf(tree) == {tree[i] : i \in {j \in 1..Len(tree) :
                        tree[j].top = "natural-languages" /\ tree[j].name = "template.json"}}

\* C9: template.json under natural-languages/ adds no error to stages 2-4
\* and does not change their outcome, whatever it contains; a template.json
\* that does not parse gives a syntax error and ends the run with exit code 1.
TemplateExcluded ==
    /\ \A t \in TemplatesOf(repo) :
          /\ \A i \in 1..Len(schema_errors) : schema_errors[i].rel # t.path
          /\ \A i \in 1..Len(completeness_errors) : completeness_errors[i].rel # t.path
          /\ \A i \in 1..Len(uniqueness_errors) : uniqueness_errors[i].rel # t.path
          /\ (pc # "syntax" /\ ~t.ok) =>
                /\ \E i \in 1..Len(syntax_errors) : syntax_errors[i].rel = t.path
                /\ pc = "exit" /\ exit_code = 1
                /\ called = {"validate_json_syntax"}
    /\ Over("validate_schemas") => schema_errors = validate_schemas(WithoutTemplate(repo))
    /\ Over("validate_completeness") =>
          [raised |-> raised = "validate_completeness", errors |-> completeness_errors]
             \in validate_completeness(WithoutTemplate(repo))
    /\ Over("validate_uniqueness") =>
          [raised |-> raised = "validate_uniqueness", errors |-> uniqueness_errors]
             = validate_uniqueness(WithoutTemplate(repo))

TemplateExcludedWitness ==
    /\ pc = "exit"
    /\ exit_code = 0
    /\ \E t \in TemplatesOf(repo) : t.ok /\ IsDict(t.data) /\ Len(ItemsOf(t.data, kTranslations)) > 0
    /\ TrFilesOf(repo) # {}

\* the duplicate errors of one `translations` object: one for each entry
\* whose value is a non-empty string equal, lower-cased, to that of an
\* earlier such entry; it names the first ID of the word
ExpectedDuplicates(rel, items) ==
    LET words == {i \in 1..Len(items) : IsStr(items[i].v) /\ Len(items[i].v.s) > 0}
        earlier(i) == {j \in words : j < i /\ PyLower(items[j].v.s) = PyLower(items[i].v.s)}
        first(i) == CHOOSE j \in earlier(i) : \A k \in earlier(i) : j <= k
        dups == SelectSeq([i \in 1..Len(items) |-> i], LAMBDA i : i \in words /\ earlier(i) # {})
    IN [n \in 1..Len(dups) |->
           UniquenessErr(rel, items[dups[n]].v.s, items[first(dups[n])].k, items[dups[n]].k)]

\* C6: validate_uniqueness returns, file by file and in document order, one
\* error for each entry whose non-empty string value repeats, letter case
\* ignored, that of an earlier entry of the same file; the error names the
\* current word, the ID that first had the word, and the current ID.
UniquenessReports ==
    Done("validate_uniqueness") =>
       LET tr == SelectSeq(repo, LAMBDA f : f \in TrFilesOf(repo))
       IN uniqueness_errors =
             Flatten([i \in 1..Len(tr) |-> ExpectedDuplicates(tr[i].path, ItemsOf(tr[i].data, kTranslations))])

\* three entries of one file with the same word, a second file with it too
UniquenessReportsWitness ==
    /\ Done("validate_uniqueness")
    /\ Cardinality(TrFilesOf(repo)) = 2
    /\ \E i, j \in 1..Len(uniqueness_errors) :
          /\ i < j
          /\ uniqueness_errors[i].rel = TrPaths[1] /\ uniqueness_errors[j].rel = TrPaths[1]
          /\ uniqueness_errors[i].first = uniqueness_errors[j].first
          /\ uniqueness_errors[i].word # uniqueness_errors[j].word
    /\ \E i \in 1..Len(uniqueness_errors) : uniqueness_errors[i].rel = TrPaths[2]

====
